---- MODULE Spec2Model ----
(***************************************************************************)
(* Model of the FinopolyPoker player (src/250103009.py): the card model,   *)
(* the 3-card hand classifier, the Monte Carlo outcome simulator, the EV   *)
(* policy of decide_action and the stdin/stdout adapter main.              *)
(***************************************************************************)
EXTENDS Integers, Sequences, FiniteSets, TLC

VARIABLES
    stdin, state, pc, exception, stdout,
    hole, table, opp,
    opp_fold_rate, opp_raise_rate, opp_call_rate,
    category,
    round_number, mc_caller,
    n_simulations, my_category, available_deck, opp_hole, wins, ties, trial, ret,
    prob_win, prob_tie, prob_lose,
    ev_fold, ev_call, ev_raise,
    action

vars == <<stdin, state, pc, exception, stdout, hole, table, opp,
          opp_fold_rate, opp_raise_rate, opp_call_rate, category,
          n_simulations, my_category, available_deck, opp_hole, wins, ties,
          trial, ret, prob_win, prob_tie, prob_lose,
          ev_fold, ev_call, ev_raise, action, round_number, mc_caller>>

(***************************************************************************)
(* 1. Python float arithmetic (IEEE 754 binary64, round to nearest, ties   *)
(* to even).  A natural number of any size is a little-endian sequence of  *)
(* limbs in base 2^14 without high zero limbs; a float is the record       *)
(* [s, m, e] standing for s * m * 2^e with m odd (zero: m = <<>>, e = 0).  *)
(* Every operation computes the exact result and rounds it to 53           *)
(* significant bits, as the hardware does.  The exponent range is not      *)
(* modelled: no value of this program comes near overflow or underflow.    *)
(***************************************************************************)
LimbBits == 14

LimbBase == 2 ^ LimbBits

MantissaBits == 53

RECURSIVE BStrip(_)
BStrip(a) ==
    IF a = <<>> THEN <<>>
    ELSE IF a[Len(a)] = 0 THEN BStrip(SubSeq(a, 1, Len(a) - 1))
    ELSE a

RECURSIVE BFromInt(_)
BFromInt(n) == IF n = 0 THEN <<>> ELSE <<n % LimbBase>> \o BFromInt(n \div LimbBase)

RECURSIVE BAddC(_, _, _)
BAddC(a, b, c) ==
    IF a = <<>> /\ b = <<>> THEN (IF c = 0 THEN <<>> ELSE <<c>>)
    ELSE LET x == IF a = <<>> THEN 0 ELSE Head(a)
             y == IF b = <<>> THEN 0 ELSE Head(b)
             t == x + y + c
         IN  <<t % LimbBase>> \o
             BAddC(IF a = <<>> THEN <<>> ELSE Tail(a),
                   IF b = <<>> THEN <<>> ELSE Tail(b), t \div LimbBase)

BAdd(a, b) == BAddC(a, b, 0)

\* a - b for a >= b
RECURSIVE BSubC(_, _, _)
BSubC(a, b, c) ==
    IF a = <<>> THEN <<>>
    ELSE LET y == IF b = <<>> THEN 0 ELSE Head(b)
             t == Head(a) - y - c
         IN  <<t % LimbBase>> \o
             BSubC(Tail(a), IF b = <<>> THEN <<>> ELSE Tail(b), IF t < 0 THEN 1 ELSE 0)

BSub(a, b) == BStrip(BSubC(a, b, 0))

\* -1, 0, 1 as a < b, a = b, a > b
RECURSIVE BCmpFrom(_, _, _)
BCmpFrom(a, b, i) ==
    IF i = 0 THEN 0
    ELSE IF a[i] < b[i] THEN -1
    ELSE IF a[i] > b[i] THEN 1
    ELSE BCmpFrom(a, b, i - 1)

BCmp(a, b) ==
    IF Len(a) < Len(b) THEN -1
    ELSE IF Len(a) > Len(b) THEN 1
    ELSE BCmpFrom(a, b, Len(a))

\* a * k for 0 <= k < 2^16
RECURSIVE BMulSmallC(_, _, _)
BMulSmallC(a, k, c) ==
    IF a = <<>> THEN BFromInt(c)
    ELSE LET t == Head(a) * k + c
         IN  <<t % LimbBase>> \o BMulSmallC(Tail(a), k, t \div LimbBase)

BMulSmall(a, k) == BStrip(BMulSmallC(a, k, 0))

RECURSIVE BMul(_, _)
BMul(a, b) ==
    IF a = <<>> \/ b = <<>> THEN <<>>
    ELSE LET rest == BMul(a, Tail(b))
         IN  BAdd(BMulSmall(a, Head(b)), IF rest = <<>> THEN <<>> ELSE <<0>> \o rest)

\* <<a \div d, a % d>> for 0 < d < 2^16, from the most significant limb down
RECURSIVE BDivSmallFrom(_, _, _, _)
BDivSmallFrom(a, d, i, r) ==
    IF i = 0 THEN <<<<>>, r>>
    ELSE LET t == r * LimbBase + a[i]
             lower == BDivSmallFrom(a, d, i - 1, t % d)
         IN  <<lower[1] \o <<t \div d>>, lower[2]>>

BDivSmall(a, d) ==
    LET qr == BDivSmallFrom(a, d, Len(a), 0) IN <<BStrip(qr[1]), qr[2]>>

Zeros(n) == [i \in 1..n |-> 0]

\* a * 2^k
BShl(a, k) ==
    IF a = <<>> THEN <<>>
    ELSE BMulSmall(Zeros(k \div LimbBits) \o a, 2 ^ (k % LimbBits))

\* a \div 2^k
BShr(a, k) ==
    IF k \div LimbBits >= Len(a) THEN <<>>
    ELSE BDivSmall(SubSeq(a, (k \div LimbBits) + 1, Len(a)), 2 ^ (k % LimbBits))[1]

RECURSIVE IntBitLen(_)
IntBitLen(n) == IF n = 0 THEN 0 ELSE 1 + IntBitLen(n \div 2)

BBitLen(a) == IF a = <<>> THEN 0 ELSE LimbBits * (Len(a) - 1) + IntBitLen(a[Len(a)])

BIsOdd(a) == a # <<>> /\ a[1] % 2 = 1

RECURSIVE IntTrailingZeros(_)
IntTrailingZeros(n) == IF n % 2 = 1 THEN 0 ELSE 1 + IntTrailingZeros(n \div 2)

\* number of trailing zero bits of a # 0
RECURSIVE BTrailingZeros(_)
BTrailingZeros(a) ==
    IF Head(a) = 0 THEN LimbBits + BTrailingZeros(Tail(a))
    ELSE IntTrailingZeros(Head(a))

FZero == [s |-> 1, m |-> <<>>, e |-> 0]

\* the canonical record of s * M * 2^e, M of at most 53 bits
FCanon(s, M, e) ==
    IF M = <<>> THEN FZero
    ELSE LET tz == BTrailingZeros(M)
         IN  [s |-> s, m |-> BShr(M, tz), e |-> e + tz]

\* s * M * 2^e rounded to 53 significant bits, ties to even
FRound(s, M, e) ==
    IF BBitLen(M) <= MantissaBits THEN FCanon(s, M, e)
    ELSE LET d == BBitLen(M) - MantissaBits
             q == BShr(M, d)
             r == BSub(M, BShl(q, d))
             c == BCmp(r, BShl(<<1>>, d - 1))
             up == c > 0 \/ (c = 0 /\ BIsOdd(q))
         IN  FCanon(s, IF up THEN BAdd(q, <<1>>) ELSE q, e + d)

FNeg(a) == IF a.m = <<>> THEN a ELSE [a EXCEPT !.s = -a.s]

Min(x, y) == IF x <= y THEN x ELSE y

\* the exact sum as <<sign, magnitude, exponent>>
FExactAdd(a, b) ==
    LET e0 == Min(a.e, b.e)
        A == BShl(a.m, a.e - e0)
        B == BShl(b.m, b.e - e0)
        c == BCmp(A, B)
    IN  IF a.s = b.s THEN <<a.s, BAdd(A, B), e0>>
        ELSE IF c = 0 THEN <<1, <<>>, 0>>
        ELSE IF c > 0 THEN <<a.s, BSub(A, B), e0>>
        ELSE <<b.s, BSub(B, A), e0>>

FAdd(a, b) == LET x == FExactAdd(a, b) IN FRound(x[1], x[2], x[3])

FSub(a, b) == FAdd(a, FNeg(b))

FMul(a, b) == FRound(a.s * b.s, BMul(a.m, b.m), a.e + b.e)

\* a < b: -1, a = b: 0, a > b: 1 (comparison is exact)
FCmp(a, b) ==
    LET x == FExactAdd(a, FNeg(b)) IN IF x[2] = <<>> THEN 0 ELSE x[1]

FLt(a, b) == FCmp(a, b) < 0

FGt(a, b) == FCmp(a, b) > 0

FGe(a, b) == FCmp(a, b) >= 0

QuotientBits == 80

\* Python's int / int for 0 <= w, 0 < n < 2^16: the quotient is taken to
\* QuotientBits binary places with a sticky bit, then rounded once
FDivInt(w, n) ==
    LET qr == BDivSmall(BShl(BFromInt(w), QuotientBits), n)
        M == BAdd(BShl(qr[1], 1), IF qr[2] = 0 THEN <<>> ELSE <<1>>)
    IN  FRound(1, M, -(QuotientBits + 1))

\* an int operand of a float operation
FInt(k) == IF k < 0 THEN FNeg(FRound(1, BFromInt(-k), 0)) ELSE FRound(1, BFromInt(k), 0)

\* a decimal literal num/den, e.g. 0.33 as FLit(33, 100): the nearest double
FLit(num, den) == FDivInt(num, den)


(***************************************************************************)
(* 2. Card model.  A card token "AS" is the pair <<"A", "S">> of its two   *)
(* characters.                                                             *)
(***************************************************************************)
RANKS == <<"2", "3", "4", "5", "6", "7", "8", "9", "T", "J", "Q", "K", "A">>

SUITS == <<"C", "D", "H", "S">>

\* {r: i + 2 for i, r in enumerate(RANKS)}; enumerate counts from 0, RANKS[i] from 1
RANK_VALUE == [r \in {RANKS[i] : i \in 1..Len(RANKS)} |->
                 (CHOOSE i \in 1..Len(RANKS) : RANKS[i] = r) + 1]

\* RANK_VALUE[card_str[0]] raises KeyError for an unknown rank symbol
ParseRaises(card_str) == card_str[1] \notin DOMAIN RANK_VALUE

parse_card(card_str) == <<RANK_VALUE[card_str[1]], card_str[2]>>

\* sorted(): insertion of x into an ascending sequence, then the fold
RECURSIVE Insert(_, _)
Insert(x, s) ==
    IF s = <<>> THEN <<x>>
    ELSE IF x <= Head(s) THEN <<x>> \o s
    ELSE <<Head(s)>> \o Insert(x, Tail(s))

RECURSIVE sorted(_)
sorted(s) == IF s = <<>> THEN <<>> ELSE Insert(Head(s), sorted(Tail(s)))

SeqToSet(s) == {s[i] : i \in 1..Len(s)}

\* is_straight_3 without the A-2-3 case
is_straight_3_NoWheel(rank_values) ==
    LET r == sorted(rank_values) IN
    IF r[1] + 1 = r[2] /\ r[2] + 1 = r[3] THEN <<TRUE, r[3]>>
    ELSE <<FALSE, 0>>

\* is_straight_3 reading the ranks in the order given, without sorting
is_straight_3_Unsorted(rank_values) ==
    LET r == rank_values IN
    IF r[1] + 1 = r[2] /\ r[2] + 1 = r[3] THEN <<TRUE, r[3]>>
    ELSE IF SeqToSet(r) = {14, 2, 3} THEN <<TRUE, 3>>
    ELSE <<FALSE, 0>>

\* returns <<is_straight, high_card_value>>
is_straight_3(rank_values) ==
    LET r == sorted(rank_values) IN
    IF r[1] + 1 = r[2] /\ r[2] + 1 = r[3] THEN <<TRUE, r[3]>>
    ELSE IF SeqToSet(r) = {14, 2, 3} THEN <<TRUE, 3>>
    ELSE <<FALSE, 0>>

\* the histogram built by the loop "counts[v] = counts.get(v, 0) + 1"
RankCounts(rank_values) ==
    [v \in SeqToSet(rank_values) |->
        Cardinality({i \in 1..Len(rank_values) : rank_values[i] = v})]

\* hand_category raises KeyError when one of its cards does not parse
HandRaises(h, t) == \E c \in SeqToSet(h \o <<t>>) : ParseRaises(c)

hand_category(h, t) ==
    LET cards == h \o <<t>>
        rank_values == [i \in 1..Len(cards) |-> parse_card(cards[i])[1]]
        suits == [i \in 1..Len(cards) |-> parse_card(cards[i])[2]]
        flush == Cardinality(SeqToSet(suits)) = 1
        counts == RankCounts(rank_values)
        straight == is_straight_3(rank_values)[1]
        countValues == {counts[v] : v \in DOMAIN counts}
    IN  IF straight /\ flush THEN 5
        ELSE IF 3 \in countValues THEN 4
        ELSE IF straight THEN 3
        ELSE IF flush THEN 2
        ELSE IF 2 \in countValues THEN 1
        ELSE 0

\* deck = [r + s for r in RANKS for s in SUITS]
Deck == [k \in 1..(Len(RANKS) * Len(SUITS)) |->
            <<RANKS[((k - 1) \div Len(SUITS)) + 1], SUITS[((k - 1) % Len(SUITS)) + 1]>>]

(***************************************************************************)
(* 3. Bounds and inputs.                                                   *)
(***************************************************************************)
\* trials decide_action asks of the simulator (10000 in the source)
DecideTrials == 2

\* trials of a direct call of monte_carlo_sim
MaxTrials == 5

\* largest count of one opponent action in opponent_stats
MaxCount == 1

Card(r, s) == <<r, s>>

\* one hand of every category: <<your_hole, table_card>>
Hands ==
    { <<<<Card("2", "C"), Card("5", "D")>>, Card("9", "H")>>,
      <<<<Card("9", "C"), Card("9", "D")>>, Card("2", "H")>>,
      <<<<Card("2", "H"), Card("5", "H")>>, Card("9", "H")>>,
      <<<<Card("A", "C"), Card("2", "D")>>, Card("3", "H")>>,
      <<<<Card("7", "C"), Card("7", "D")>>, Card("7", "H")>>,
      <<<<Card("A", "S"), Card("K", "S")>>, Card("Q", "S")>> }

OpponentStats == [fold : 0..MaxCount, call : 0..MaxCount, raise : 0..MaxCount]

\* the JSON objects of well-formed round states
RoundStates ==
    { [your_hole |-> h[1], table_card |-> h[2], round |-> 1] : h \in Hands }
    \cup
    { [your_hole |-> h[1], table_card |-> h[2], opponent_stats |-> o] :
          h \in Hands, o \in OpponentStats }

\* JSON objects the engine fails on: no fields, a missing table card, the
\* malformed rank token "1S"
BrokenStates ==
    { <<>>,
      [your_hole |-> <<Card("A", "S"), Card("K", "S")>>],
      [your_hole |-> <<Card("1", "S"), Card("K", "S")>>, table_card |-> Card("Q", "S")] }

\* what stdin can hold: nothing, text that is not JSON, a JSON object
StdinInputs ==
    { [raw |-> "empty", obj |-> <<>>], [raw |-> "garbage", obj |-> <<>>] }
    \cup { [raw |-> "object", obj |-> o] : o \in RoundStates \cup BrokenStates }

Labels == {"FOLD", "CALL", "RAISE"}

\* a float local that has no binding yet (no operation yields s = 0)
Unbound == [s |-> 0, m |-> <<>>, e |-> 0]

\* opp before line 245 binds it
NoStats == [fold |-> 0, call |-> 0, raise |-> 0]

(***************************************************************************)
(* 4. Initial states.                                                      *)
(***************************************************************************)
EngineUnset ==
    /\ opp = NoStats /\ round_number = 0
    /\ opp_fold_rate = Unbound /\ opp_raise_rate = Unbound /\ opp_call_rate = Unbound
    /\ category = -1
    /\ prob_win = Unbound /\ prob_tie = Unbound /\ prob_lose = Unbound
    /\ ev_fold = Unbound /\ ev_call = Unbound /\ ev_raise = Unbound
    /\ action = ""

SimUnset ==
    /\ my_category = -1 /\ available_deck = <<>> /\ opp_hole = <<>>
    /\ wins = 0 /\ ties = 0 /\ trial = 0 /\ ret = <<>>

\* the process starts with its input waiting on stdin
Init ==
    /\ stdin \in StdinInputs
    /\ pc = "main"
    /\ state = <<>> /\ exception = "none" /\ stdout = <<>>
    /\ hole = <<>> /\ table = <<>>
    /\ n_simulations = 0 /\ mc_caller = "none"
    /\ EngineUnset /\ SimUnset

(***************************************************************************)
(* 5. monte_carlo_sim.                                                     *)
(***************************************************************************)
Raise(name) ==
    /\ exception' = name
    /\ pc' = "raised"

\* [card for card in deck if card not in known_cards]
RECURSIVE Without(_, _)
Without(d, known) ==
    IF d = <<>> THEN <<>>
    ELSE IF Head(d) \in known THEN Without(Tail(d), known)
    ELSE <<Head(d)>> \o Without(Tail(d), known)

AvailableDeck(h, t) == Without(Deck, SeqToSet(h \o <<t>>))

\* a draw that may take the same position twice
Sample2_WithReplacement(population) ==
    { <<population[ij[1]], population[ij[2]]>> :
          ij \in (1..Len(population)) \X (1..Len(population)) }

\* random.sample(population, 2): the cards at two different positions
Sample2(population) ==
    { <<population[ij[1]], population[ij[2]]>> :
          ij \in { x \in (1..Len(population)) \X (1..Len(population)) : x[1] # x[2] } }

\* lines 196-202
Mc_Setup ==
    /\ pc = "monte_carlo_sim"
    /\ IF HandRaises(hole, table)
       THEN /\ Raise("KeyError")
            /\ UNCHANGED <<my_category, available_deck, wins, ties, trial>>
       ELSE /\ my_category' = hand_category(hole, table)
            /\ available_deck' = AvailableDeck(hole, table)
            /\ wins' = 0
            /\ ties' = 0
            /\ trial' = 0
            /\ pc' = "mc_loop"
            /\ UNCHANGED exception
    /\ UNCHANGED <<stdin, state, stdout, hole, table, opp, opp_fold_rate,
                   opp_raise_rate, opp_call_rate, category, n_simulations,
                   opp_hole, ret, prob_win, prob_tie, prob_lose, ev_fold,
                   ev_call, ev_raise, action, round_number, mc_caller>>

\* lines 204-205: one more iteration, the opponent's hand is drawn
Mc_Sample ==
    /\ pc = "mc_loop"
    /\ trial < n_simulations
    /\ IF Len(available_deck) < 2
       THEN Raise("ValueError") /\ UNCHANGED opp_hole
       ELSE /\ opp_hole' \in Sample2(available_deck)
            /\ pc' = "mc_score"
            /\ UNCHANGED exception
    /\ UNCHANGED <<stdin, state, stdout, hole, table, opp, opp_fold_rate,
                   opp_raise_rate, opp_call_rate, category, n_simulations,
                   my_category, available_deck, wins, ties, trial, ret,
                   prob_win, prob_tie, prob_lose, ev_fold, ev_call, ev_raise,
                   action, round_number, mc_caller>>

\* the counters after a trial against opp_category
Tally(mine, opp_category, w, t) ==
    IF mine > opp_category THEN <<w + 1, t>>
    ELSE IF mine = opp_category THEN <<w, t + 1>>
    ELSE <<w, t>>

\* lines 206-211: the drawn hand is classified and counted.  opp_hole is
\* dead from here on (line 205 rebinds it before it is read again), so the
\* model drops the binding.
Mc_Score ==
    /\ pc = "mc_score"
    /\ LET opp_category == hand_category(opp_hole, table)
           tally == Tally(my_category, opp_category, wins, ties)
       IN  /\ wins' = tally[1]
           /\ ties' = tally[2]
    /\ trial' = trial + 1
    /\ opp_hole' = <<>>
    /\ pc' = "mc_loop"
    /\ UNCHANGED <<stdin, state, exception, stdout, hole, table, opp,
                   opp_fold_rate, opp_raise_rate, opp_call_rate, category,
                   n_simulations, my_category, available_deck, ret, prob_win,
                   prob_tie, prob_lose, ev_fold, ev_call, ev_raise, action,
                   round_number, mc_caller>>

\* lines 213-217: the value monte_carlo_sim returns
McResult(w, t, n) ==
    LET p_win == FDivInt(w, n)
        p_tie == FDivInt(t, n)
        p_lose == FSub(FSub(FInt(1), p_win), p_tie)
    IN  <<p_win, p_lose, p_tie>>

\* lines 213-217: the loop is over, the triple goes back to the caller
Mc_Return ==
    /\ pc = "mc_loop"
    /\ trial = n_simulations
    /\ ret' = McResult(wins, ties, n_simulations)
    /\ pc' = IF mc_caller = "decide_action" THEN "decide_ev" ELSE "mc_done"
    /\ UNCHANGED <<stdin, state, exception, stdout, hole, table, opp,
                   opp_fold_rate, opp_raise_rate, opp_call_rate, category,
                   n_simulations, my_category, available_deck, opp_hole, wins,
                   ties, trial, prob_win, prob_tie, prob_lose, ev_fold,
                   ev_call, ev_raise, action, round_number, mc_caller>>

(***************************************************************************)
(* 6. decide_action.                                                       *)
(***************************************************************************)
\* lines 243-246: the fields of the round state
Decide_Extract ==
    /\ pc = "decide_action"
    /\ IF "your_hole" \notin DOMAIN state \/ "table_card" \notin DOMAIN state
       THEN /\ Raise("KeyError")
            /\ UNCHANGED <<hole, table, opp, round_number>>
       ELSE /\ hole' = state["your_hole"]
            /\ table' = state["table_card"]
            /\ opp' = IF "opponent_stats" \in DOMAIN state
                      THEN state["opponent_stats"]
                      ELSE [fold |-> 0, call |-> 0, raise |-> 0]
            /\ round_number' = IF "round" \in DOMAIN state THEN state["round"] ELSE 1
            /\ pc' = "decide_rates"
            /\ UNCHANGED exception
    /\ UNCHANGED <<stdin, state, stdout, opp_fold_rate, opp_raise_rate,
                   opp_call_rate, category, n_simulations, my_category,
                   available_deck, opp_hole, wins, ties, trial, ret, prob_win,
                   prob_tie, prob_lose, ev_fold, ev_call, ev_raise, action,
                   mc_caller>>

\* lines 248-255: <<opp_fold_rate, opp_raise_rate, opp_call_rate>>; the
\* branch for no observed action binds no opp_call_rate
OppRates(o) ==
    LET total_opp_actions == o.fold + o.call + o.raise IN
    IF total_opp_actions = 0
    THEN <<FLit(33, 100), FLit(33, 100), Unbound>>
    ELSE LET f == FDivInt(o.fold, total_opp_actions)
             r == FDivInt(o.raise, total_opp_actions)
         IN  <<f, r, FSub(FSub(FInt(1), f), r)>>

Decide_Rates ==
    /\ pc = "decide_rates"
    /\ opp_fold_rate' = OppRates(opp)[1]
    /\ opp_raise_rate' = OppRates(opp)[2]
    /\ opp_call_rate' = OppRates(opp)[3]
    /\ pc' = "decide_category"
    /\ UNCHANGED <<stdin, state, exception, stdout, hole, table, opp, category,
                   n_simulations, my_category, available_deck, opp_hole, wins,
                   ties, trial, ret, prob_win, prob_tie, prob_lose, ev_fold,
                   ev_call, ev_raise, action, round_number, mc_caller>>

\* line 259
Decide_Category ==
    /\ pc = "decide_category"
    /\ IF HandRaises(hole, table)
       THEN Raise("KeyError") /\ UNCHANGED category
       ELSE /\ category' = hand_category(hole, table)
            /\ pc' = "decide_sim"
            /\ UNCHANGED exception
    /\ UNCHANGED <<stdin, state, stdout, hole, table, opp, opp_fold_rate,
                   opp_raise_rate, opp_call_rate, n_simulations, my_category,
                   available_deck, opp_hole, wins, ties, trial, ret, prob_win,
                   prob_tie, prob_lose, ev_fold, ev_call, ev_raise, action,
                   round_number, mc_caller>>

\* line 261: the call monte_carlo_sim(hole, table, n_simulations = ...)
Decide_Simulate ==
    /\ pc = "decide_sim"
    /\ n_simulations' = DecideTrials
    /\ mc_caller' = "decide_action"
    /\ pc' = "monte_carlo_sim"
    /\ UNCHANGED <<stdin, state, exception, stdout, hole, table, opp,
                   opp_fold_rate, opp_raise_rate, opp_call_rate, category,
                   my_category, available_deck, opp_hole, wins, ties, trial,
                   ret, prob_win, prob_tie, prob_lose, ev_fold, ev_call,
                   ev_raise, action, round_number>>

\* lines 264-268
EvCall(fold_rate, call_rate, raise_rate, p_win, p_lose) ==
    FAdd(FAdd(FMul(fold_rate, FInt(2)),
              FMul(call_rate, FAdd(FMul(p_win, FInt(2)), FMul(p_lose, FInt(-2))))),
         FMul(raise_rate, FAdd(FMul(p_win, FInt(2)), FMul(p_lose, FInt(-3)))))

\* ev_raise charging a lost raise against a call with -3
EvRaise_LossOfThree(fold_rate, call_rate, raise_rate, p_win, p_lose) ==
    FAdd(FAdd(FMul(fold_rate, FInt(3)),
              FMul(call_rate, FAdd(FMul(p_win, FInt(3)), FMul(p_lose, FInt(-3))))),
         FMul(raise_rate, FAdd(FMul(p_win, FInt(3)), FMul(p_lose, FInt(-3)))))

\* lines 269-273
EvRaise(fold_rate, call_rate, raise_rate, p_win, p_lose) ==
    FAdd(FAdd(FMul(fold_rate, FInt(3)),
              FMul(call_rate, FAdd(FMul(p_win, FInt(3)), FMul(p_lose, FInt(-2))))),
         FMul(raise_rate, FAdd(FMul(p_win, FInt(3)), FMul(p_lose, FInt(-3)))))

\* line 261: prob_win, prob_tie, prob_lose = <the returned triple>
Unpack(triple) == [prob_win |-> triple[1], prob_tie |-> triple[2], prob_lose |-> triple[3]]

\* lines 261-273: the triple is unpacked and the three EVs are computed;
\* reading a local that was never bound raises UnboundLocalError
Decide_EV ==
    /\ pc = "decide_ev"
    /\ prob_win' = Unpack(ret).prob_win
    /\ prob_tie' = Unpack(ret).prob_tie
    /\ prob_lose' = Unpack(ret).prob_lose
    /\ ev_fold' = FInt(-1)
    /\ IF opp_call_rate = Unbound
       THEN /\ Raise("UnboundLocalError")
            /\ UNCHANGED <<ev_call, ev_raise>>
       ELSE /\ ev_call' = EvCall(opp_fold_rate, opp_call_rate, opp_raise_rate,
                                 prob_win', prob_lose')
            /\ ev_raise' = EvRaise(opp_fold_rate, opp_call_rate, opp_raise_rate,
                                   prob_win', prob_lose')
            /\ pc' = "decide_tree"
            /\ UNCHANGED exception
    /\ UNCHANGED <<stdin, state, stdout, hole, table, opp, opp_fold_rate,
                   opp_raise_rate, opp_call_rate, category, n_simulations,
                   my_category, available_deck, opp_hole, wins, ties, trial,
                   ret, action, round_number, mc_caller>>

FMax(a, b) == IF FGe(a, b) THEN a ELSE b

\* the tree with "and" for "or" in the band of categories 4 and 5
DecideTree_AndEscape(cat, p_win, fold_rate, raise_rate, e_fold, e_call, e_raise) ==
    IF cat >= 4 THEN
        IF FGe(e_raise, e_call) /\ FGt(p_win, FLit(85, 100)) THEN "RAISE" ELSE "CALL"
    ELSE IF cat = 3 THEN
        IF FGe(e_raise, FMax(e_call, e_fold)) THEN "RAISE"
        ELSE IF FGt(e_call, e_fold) THEN "CALL"
        ELSE "FOLD"
    ELSE IF cat = 2 THEN
        IF FGt(p_win, FLit(6, 10)) /\ FGt(e_raise, e_call) THEN "RAISE"
        ELSE IF FGt(p_win, FLit(45, 100)) \/ FGt(e_call, FInt(0)) THEN "CALL"
        ELSE "FOLD"
    ELSE IF cat = 1 THEN
        IF FGt(raise_rate, FLit(5, 10)) /\ FLt(p_win, FLit(5, 10)) THEN
            IF FGt(e_call, FInt(0)) THEN "CALL" ELSE "FOLD"
        ELSE IF FGt(p_win, FLit(55, 100))
                \/ (FGt(e_call, FLit(5, 10)) /\ FGt(fold_rate, FLit(4, 10))) THEN "CALL"
        ELSE IF FGe(e_fold, e_call) THEN "FOLD"
        ELSE "CALL"
    ELSE IF cat = 0 THEN
        IF FGt(p_win, FLit(6, 10)) /\ FGt(fold_rate, FLit(4, 10)) THEN "CALL"
        ELSE IF FGt(e_call, FLit(3, 10)) THEN "CALL"
        ELSE "FOLD"
    ELSE "CALL"

\* lines 275-318
DecideTree(cat, p_win, fold_rate, raise_rate, e_fold, e_call, e_raise) ==
    IF cat >= 4 THEN
        IF FGe(e_raise, e_call) \/ FGt(p_win, FLit(85, 100)) THEN "RAISE" ELSE "CALL"
    ELSE IF cat = 3 THEN
        IF FGe(e_raise, FMax(e_call, e_fold)) THEN "RAISE"
        ELSE IF FGt(e_call, e_fold) THEN "CALL"
        ELSE "FOLD"
    ELSE IF cat = 2 THEN
        IF FGt(p_win, FLit(6, 10)) /\ FGt(e_raise, e_call) THEN "RAISE"
        ELSE IF FGt(p_win, FLit(45, 100)) \/ FGt(e_call, FInt(0)) THEN "CALL"
        ELSE "FOLD"
    ELSE IF cat = 1 THEN
        IF FGt(raise_rate, FLit(5, 10)) /\ FLt(p_win, FLit(5, 10)) THEN
            IF FGt(e_call, FInt(0)) THEN "CALL" ELSE "FOLD"
        ELSE IF FGt(p_win, FLit(55, 100))
                \/ (FGt(e_call, FLit(5, 10)) /\ FGt(fold_rate, FLit(4, 10))) THEN "CALL"
        ELSE IF FGe(e_fold, e_call) THEN "FOLD"
        ELSE "CALL"
    ELSE IF cat = 0 THEN
        IF FGt(p_win, FLit(6, 10)) /\ FGt(fold_rate, FLit(4, 10)) THEN "CALL"
        ELSE IF FGt(e_call, FLit(3, 10)) THEN "CALL"
        ELSE "FOLD"
    ELSE "CALL"

\* lines 275-318: the label goes back to main
Decide_Tree ==
    /\ pc = "decide_tree"
    /\ action' = DecideTree(category, prob_win, opp_fold_rate, opp_raise_rate,
                            ev_fold, ev_call, ev_raise)
    /\ pc' = "main_emit"
    /\ UNCHANGED <<stdin, state, exception, stdout, hole, table, opp,
                   opp_fold_rate, opp_raise_rate, opp_call_rate, category,
                   n_simulations, my_category, available_deck, opp_hole, wins,
                   ties, trial, ret, prob_win, prob_tie, prob_lose, ev_fold,
                   ev_call, ev_raise, round_number, mc_caller>>

(***************************************************************************)
(* 7. main.                                                                *)
(***************************************************************************)
\* lines 335-339: json.loads(raw) if raw else {}, {} when parsing fails
ParseInput(input) == IF input.raw = "object" THEN input.obj ELSE <<>>

\* lines 335-341: the input is read and decide_action is called on it
Main_Read ==
    /\ pc = "main"
    /\ state' = ParseInput(stdin)
    /\ pc' = "decide_action"
    /\ UNCHANGED <<stdin, exception, stdout, hole, table, opp, opp_fold_rate,
                   opp_raise_rate, opp_call_rate, category, n_simulations,
                   my_category, available_deck, opp_hole, wins, ties, trial,
                   ret, prob_win, prob_tie, prob_lose, ev_fold, ev_call,
                   ev_raise, action, round_number, mc_caller>>

\* lines 344-345
SafeAction(a) == IF a \notin Labels THEN "CALL" ELSE a

\* lines 344-347: the record is written, main returns
Main_Emit ==
    /\ pc = "main_emit"
    /\ stdout' = Append(stdout, [action |-> SafeAction(action)])
    /\ pc' = "done"
    /\ UNCHANGED <<stdin, state, exception, hole, table, opp, opp_fold_rate,
                   opp_raise_rate, opp_call_rate, category, n_simulations,
                   my_category, available_deck, opp_hole, wins, ties, trial,
                   ret, prob_win, prob_tie, prob_lose, ev_fold, ev_call,
                   ev_raise, action, round_number, mc_caller>>

(***************************************************************************)
(* 8. Specifications.                                                      *)
(***************************************************************************)
\* one run of the program
Next ==
    \/ Main_Read
    \/ Decide_Extract
    \/ Decide_Rates
    \/ Decide_Category
    \/ Decide_Simulate
    \/ Mc_Setup
    \/ Mc_Sample
    \/ Mc_Score
    \/ Mc_Return
    \/ Decide_EV
    \/ Decide_Tree
    \/ Main_Emit

Spec == Init /\ [][Next]_vars

\* hands of the direct calls of monte_carlo_sim: a pair and a straight flush
SimHands ==
    { <<<<Card("9", "C"), Card("9", "D")>>, Card("2", "H")>>,
      <<<<Card("A", "S"), Card("K", "S")>>, Card("Q", "S")>> }

\* monte_carlo_sim(hole, table, n_simulations) called on its own
InitSim ==
    /\ stdin = [raw |-> "empty", obj |-> <<>>]
    /\ pc = "monte_carlo_sim"
    /\ state = <<>> /\ exception = "none" /\ stdout = <<>>
    /\ \E h \in SimHands : hole = h[1] /\ table = h[2]
    /\ n_simulations \in 1..MaxTrials
    /\ mc_caller = "none"
    /\ EngineUnset /\ SimUnset

NextSim ==
    \/ Mc_Setup
    \/ Mc_Sample
    \/ Mc_Score
    \/ Mc_Return

SimSpec == InitSim /\ [][NextSim]_vars

DeckCards == SeqToSet(Deck)

\* hand_category(hole, table) called on its own, on any three different cards
InitClass ==
    /\ stdin = [raw |-> "empty", obj |-> <<>>]
    /\ pc = "hand_category"
    /\ state = <<>> /\ exception = "none" /\ stdout = <<>>
    /\ \E a \in DeckCards, b \in DeckCards, c \in DeckCards :
          /\ Cardinality({a, b, c}) = 3
          /\ hole = <<a, b>>
          /\ table = c
    /\ n_simulations = 0 /\ mc_caller = "none"
    /\ EngineUnset /\ SimUnset

\* lines 108-140
Hc_Classify ==
    /\ pc = "hand_category"
    /\ category' = hand_category(hole, table)
    /\ pc' = "hc_done"
    /\ UNCHANGED <<stdin, state, exception, stdout, hole, table, opp,
                   opp_fold_rate, opp_raise_rate, opp_call_rate, n_simulations,
                   my_category, available_deck, opp_hole, wins, ties, trial,
                   ret, prob_win, prob_tie, prob_lose, ev_fold, ev_call,
                   ev_raise, action, round_number, mc_caller>>

NextClass == Hc_Classify

ClassSpec == InitClass /\ [][NextClass]_vars

(***************************************************************************)
(* 9. Properties.                                                          *)
(***************************************************************************)
Terminated == pc \in {"done", "raised"}

WellFormedInput == stdin.raw = "object" /\ stdin.obj \in RoundStates

NoObservedAction ==
    \/ "opponent_stats" \notin DOMAIN stdin.obj
    \/ stdin.obj["opponent_stats"] = [fold |-> 0, call |-> 0, raise |-> 0]

\* C1: for every well-formed round state (opponent_stats absent, all zero
\* or any non-negative counts) decide_action raises no error and returns
\* one of FOLD, CALL, RAISE; with no observed action it goes on with the
\* prior rates 0.33, 0.33, 0.34.
C1_NoErrorOnWellFormed ==
    WellFormedInput =>
        /\ exception = "none"
        /\ pc \in {"main_emit", "done"} => action \in Labels

RankOf(card) == RANK_VALUE[card[1]]

SuitOf(card) == card[2]

\* three consecutive ranks of one suit
IsStraightFlush(cards) ==
    /\ Cardinality({SuitOf(c) : c \in cards}) = 1
    /\ \E low \in 2..12 : {RankOf(c) : c \in cards} = {low, low + 1, low + 2}

StraightFlushInput ==
    /\ WellFormedInput
    /\ IsStraightFlush(SeqToSet(stdin.obj["your_hole"]) \cup {stdin.obj["table_card"]})

\* C2: a round state whose three cards are a straight flush and whose
\* opponent stats are all zero or absent is classified as category 5 and
\* decide_action returns RAISE.
C2_StraightFlushRaises ==
    (StraightFlushInput /\ NoObservedAction /\ Terminated) =>
        /\ category = 5
        /\ exception = "none"
        /\ action = "RAISE"

\* the fraction of trials lost, as the simulator derives it
LoseFraction == FSub(FSub(FInt(1), FDivInt(wins, n_simulations)), FDivInt(ties, n_simulations))

\* C3: monte_carlo_sim returns (P_win, P_tie, P_lose) in this order: the
\* fraction of trials won, the fraction tied, the fraction lost.
C3_TripleOrder ==
    pc = "mc_done" =>
        ret = <<FDivInt(wins, n_simulations), FDivInt(ties, n_simulations), LoseFraction>>

\* C4: EV(CALL) and EV(RAISE) weight the payoffs -2 and -3 by P_lose, the
\* fraction of trials the opponent's category is strictly higher; the tie
\* fraction enters neither EV.
C4_EvWeighsLosses ==
    pc = "decide_tree" =>
        /\ ev_call = EvCall(opp_fold_rate, opp_call_rate, opp_raise_rate,
                            FDivInt(wins, n_simulations), LoseFraction)
        /\ ev_raise = EvRaise(opp_fold_rate, opp_call_rate, opp_raise_rate,
                              FDivInt(wins, n_simulations), LoseFraction)

HandCards == SeqToSet(hole) \cup {table}

HandRanks == {RankOf(c) : c \in HandCards}

\* how many of the three cards have rank v
RankMultiplicity(v) ==
    Cardinality({i \in 1..2 : RankOf(hole[i]) = v}) + (IF RankOf(table) = v THEN 1 ELSE 0)

HandIsStraight ==
    \/ \E low \in 2..12 : HandRanks = {low, low + 1, low + 2}
    \/ HandRanks = {14, 2, 3}

HandIsFlush == \A c \in HandCards : SuitOf(c) = SuitOf(table)

\* C5: hand_category returns the first match of: straight and flush 5,
\* a rank three times 4, straight 3, flush 2, a rank twice 1, else 0; the
\* result is in 0..5.
C5_CategoryPrecedence ==
    pc = "hc_done" =>
        /\ category \in 0..5
        /\ category =
              IF HandIsStraight /\ HandIsFlush THEN 5
              ELSE IF \E v \in HandRanks : RankMultiplicity(v) = 3 THEN 4
              ELSE IF HandIsStraight THEN 3
              ELSE IF HandIsFlush THEN 2
              ELSE IF \E v \in HandRanks : RankMultiplicity(v) = 2 THEN 1
              ELSE 0

\* the wheel A-2-3 offsuit, Ace first, has been classified as a straight
C5_Witness ==
    /\ pc = "hc_done"
    /\ hole = <<Card("A", "C"), Card("2", "D")>>
    /\ table = Card("3", "H")
    /\ category = 3

\* the six orders of three cards
Permutations3(a, b, c) ==
    { <<a, b, c>>, <<a, c, b>>, <<b, a, c>>, <<b, c, a>>, <<c, a, b>>, <<c, b, a>> }

\* C6: hand_category gives the same category for every order of the two
\* hole cards and the table card over its argument positions.
C6_OrderSymmetry ==
    pc = "hc_done" =>
        \A p \in Permutations3(hole[1], hole[2], table) :
            hand_category(<<p[1], p[2]>>, p[3]) = category

\* a straight given out of rank order (K, Q, A) has been classified
C6_Witness ==
    /\ pc = "hc_done"
    /\ hole = <<Card("K", "D"), Card("Q", "C")>>
    /\ table = Card("A", "H")
    /\ category = 3

FIsProbability(x) == FGe(x, FInt(0)) /\ FGe(FInt(1), x)

\* C7: every trial falls in one bucket (wins + ties <= trials performed),
\* so the returned estimates are each in [0, 1] and sum to 1 exactly.
C7_ProbabilitiesExact ==
    /\ wins + ties <= trial
    /\ pc = "mc_done" =>
          /\ \A i \in 1..3 : FIsProbability(ret[i])
          /\ FAdd(FAdd(ret[1], ret[2]), ret[3]) = FInt(1)

\* the label the category bands prescribe for the values decide_action holds
PrescribedAction ==
    CASE category \in {4, 5} ->
            IF FCmp(ev_raise, ev_call) >= 0 \/ FCmp(prob_win, FLit(85, 100)) > 0
            THEN "RAISE" ELSE "CALL"
      [] category = 3 ->
            IF FCmp(ev_raise, ev_call) >= 0 /\ FCmp(ev_raise, ev_fold) >= 0 THEN "RAISE"
            ELSE IF FCmp(ev_call, ev_fold) > 0 THEN "CALL"
            ELSE "FOLD"
      [] category = 2 ->
            IF FCmp(prob_win, FLit(6, 10)) > 0 /\ FCmp(ev_raise, ev_call) > 0 THEN "RAISE"
            ELSE IF FCmp(prob_win, FLit(45, 100)) > 0 \/ FCmp(ev_call, FZero) > 0 THEN "CALL"
            ELSE "FOLD"
      [] category = 1 ->
            IF FCmp(opp_raise_rate, FLit(1, 2)) > 0 /\ FCmp(prob_win, FLit(1, 2)) < 0
            THEN (IF FCmp(ev_call, FZero) > 0 THEN "CALL" ELSE "FOLD")
            ELSE IF \/ FCmp(prob_win, FLit(55, 100)) > 0
                    \/ FCmp(ev_call, FLit(1, 2)) > 0 /\ FCmp(opp_fold_rate, FLit(4, 10)) > 0
                 THEN "CALL"
            ELSE IF FCmp(ev_fold, ev_call) >= 0 THEN "FOLD"
            ELSE "CALL"
      [] category = 0 ->
            IF FCmp(prob_win, FLit(6, 10)) > 0 /\ FCmp(opp_fold_rate, FLit(4, 10)) > 0
            THEN "CALL"
            ELSE IF FCmp(ev_call, FLit(3, 10)) > 0 THEN "CALL"
            ELSE "FOLD"

\* C8: from the category, P_win, fold_rate, raise_rate and the three EVs it
\* has computed, decide_action returns the label of the category-band
\* decision tree; category 4 or 5 with P_win > 0.85 gives RAISE.
C8_DecisionTree ==
    pc \in {"main_emit", "done"} =>
        /\ action = PrescribedAction
        /\ (category >= 4 /\ FCmp(prob_win, FLit(85, 100)) > 0) => action = "RAISE"

\* a high-card hand has been folded
C8_Witness ==
    /\ pc = "main_emit"
    /\ category = 0
    /\ action = "FOLD"

\* C9: every run of main, whatever stdin holds, ends by emitting exactly
\* one record whose action is FOLD, CALL or RAISE; engine failures become a
\* safe default action.
C9_AlwaysOneValidRecord ==
    Terminated =>
        /\ Len(stdout) = 1
        /\ stdout[1].action \in Labels

KnownCards == SeqToSet(hole) \cup {table}

\* C10: with three distinct known cards the pool is the 49 other cards of
\* the deck and no trial changes it; every simulated opponent hand is 2
\* distinct cards of the pool, so it holds no hole card and no table card.
C10_PoolAndDraws ==
    (Cardinality(KnownCards) = 3 /\ pc \in {"mc_loop", "mc_score", "mc_done"}) =>
        /\ Len(available_deck) = 49
        /\ SeqToSet(available_deck) = DeckCards \ KnownCards
        /\ pc = "mc_score" =>
              /\ Len(opp_hole) = 2
              /\ opp_hole[1] # opp_hole[2]
              /\ SeqToSet(opp_hole) \subseteq SeqToSet(available_deck)
              /\ SeqToSet(opp_hole) \cap KnownCards = {}

\* a later trial has drawn its opponent hand
C10_Witness ==
    /\ pc = "mc_score"
    /\ trial >= 1
    /\ Cardinality(KnownCards) = 3
    /\ Len(opp_hole) = 2

ObservedActions == opp.fold + opp.call + opp.raise

\* C11: with at least one observed opponent action and P_win >= 0 the
\* computed EV(RAISE) is never below the computed EV(CALL); so for category
\* 4 or 5 decide_action always returns RAISE and never CALL.
C11_RaiseNeverBelowCall ==
    (pc \in {"decide_tree", "main_emit", "done"} /\ ObservedActions >= 1
        /\ FCmp(prob_win, FZero) >= 0) =>
        /\ FCmp(ev_raise, ev_call) >= 0
        /\ (pc # "decide_tree" /\ category \in {4, 5}) => action = "RAISE"

\* a hand of category 4 or 5 with P_win at most 0.85 has been raised
C11_Witness ==
    /\ pc = "main_emit"
    /\ category \in {4, 5}
    /\ ObservedActions >= 1
    /\ FCmp(prob_win, FLit(85, 100)) <= 0
    /\ action = "RAISE"

====
